---- MODULE Spec2Model ----
(***************************************************************************)
(* Doctor attendance server (sistem-absensi-dokter).                       *)
(*                                                                         *)
(* The model covers the Express handlers of the doctor router (check-in,   *)
(* check-out), the admin router (create-doctor, delete-doctor,             *)
(* delete-attendance), the auth middleware and the geofence utilities,     *)
(* running against the MySQL tables users and attendance.  Every           *)
(* `await pool.execute(...)` of a handler is a point where other requests  *)
(* may run, so a handler is a sequence of atomic steps, one per statement  *)
(* executed by the database.                                               *)
(*                                                                         *)
(* Units: coordinates are integers in micro-degrees, distances integers    *)
(* in centimetres, instants integers in clock ticks (TicksPerDay per day). *)
(***************************************************************************)
EXTENDS Integers, FiniteSets, Sequences, TLC

VARIABLES users, attendance, nextId, tokens, now, env, req, last

vars == <<users, attendance, nextId, tokens, now, env, req, last>>

----------------------------------------------------------------------------
(* Bounds of the model *)

MaxNow == 2         \* the clock stops ticking at this instant
MaxId == 3          \* at most this many attendance rows are ever inserted
Procs == {1, 2}     \* requests that can be in flight at the same time
Doctors == {"d1", "d2"}
TicksPerDay == 2
TzOffsets == {0, 1} \* offset of the server's local time from UTC, in ticks

----------------------------------------------------------------------------
(* Numbers as JavaScript sees them: a finite value, NaN or +/-Infinity *)

Num(v) == [nan |-> FALSE, inf |-> 0, v |-> v]
NaN == [nan |-> TRUE, inf |-> 0, v |-> 0]
Infinity == [nan |-> FALSE, inf |-> 1, v |-> 0]

\* x >= c, as a comparison that takes the bound c itself for being beyond it
GreaterOrEqual(x, c) == ~x.nan /\ (x.inf = 1 \/ (x.inf = 0 /\ x.v >= c))

\* x < c and x > c for a JavaScript number x and a finite c (false for NaN)
Less(x, c) == ~x.nan /\ (x.inf = -1 \/ (x.inf = 0 /\ x.v < c))
Greater(x, c) == ~x.nan /\ (x.inf = 1 \/ (x.inf = 0 /\ x.v > c))

\* A test that takes no value for falsy
NeverFalsy(x) == FALSE

\* !x : 0 and NaN are falsy
Falsy(x) == x.nan \/ (x.inf = 0 /\ x.v = 0)

\* undefined and null where a number is expected: undefined converts to NaN
\* and null to 0 in comparisons and under `!`
Undefined == [nan |-> TRUE, inf |-> 0, v |-> 0, undefined |-> TRUE]
Null == [nan |-> FALSE, inf |-> 0, v |-> 0, null |-> TRUE]

\* Request body fields are strings (or absent); parseFloat reads them
Text(v) == [k |-> "num", v |-> v]        \* decimal text of v micro-degrees
Garbage == [k |-> "text", v |-> 0]       \* text with no numeric prefix
Missing == [k |-> "missing", v |-> 0]    \* field absent (undefined)
InfinityText == [k |-> "inf", v |-> 1]   \* "Infinity", "1e999"
MinusInfinityText == [k |-> "inf", v |-> -1]

parseFloat(raw) ==
  IF raw.k = "num" THEN Num(raw.v)
  ELSE IF raw.k = "inf" THEN [nan |-> FALSE, inf |-> raw.v, v |-> 0]
  ELSE NaN

----------------------------------------------------------------------------
(* utils/geofence.js *)

CmPerMilliDeg == 11119  \* R * PI / 180 with R = 6371000 m: cm per 1/1000 degree

Abs(x) == IF x < 0 THEN -x ELSE x

\* A distance whose latitude term is taken from the sum of the latitudes
calculateDistanceOfSum(lat1, lon1, lat2, lon2) ==
  LET d == Abs(lat2 + lat1)
  IN  (d \div 1000) * CmPerMilliDeg + ((d % 1000) * CmPerMilliDeg) \div 1000

\* Haversine distance in centimetres between two points given in micro-degrees.
\* With a = sin^2(dphi/2) + cos(phi1) cos(phi2) sin^2(dlambda/2), the second
\* term vanishes when the longitudes are equal or a point is a pole
\* (|lat| = 90); then c = 2 atan2(sin(dphi/2), cos(dphi/2)) = |dphi| and the
\* distance is R |dphi|.  The model's inputs are such points.
calculateDistance(lat1, lon1, lat2, lon2) ==
  CASE lon1 = lon2 \/ Abs(lat1) = 90000000 \/ Abs(lat2) = 90000000 ->
         LET d == Abs(lat2 - lat1)
         IN  (d \div 1000) * CmPerMilliDeg + ((d % 1000) * CmPerMilliDeg) \div 1000

\* Math.round of a distance in centimetres, in metres
MathRound(cm) == (cm + 50) \div 100

DefaultLat == -6200000
DefaultLng == 106816666
DefaultRadius == 500

\* A configuration that ignores the environment
AlwaysDefault(e, default) == default

\* process.env.X || default : an unset (or empty) variable gives the default,
\* any other text is used ("0" is a non-empty string, hence truthy)
EnvOr(e, default) == IF e.set THEN e.v ELSE default

NoGeofence ==
  [isWithin |-> FALSE, distance |-> -1, maxDistance |-> -1,
   authorizedLocation |-> [lat |-> 0, lng |-> 0]]

\* isWithinGeofence with `distance < radius` for `distance <= radius`
isStrictlyWithinGeofence(userLat, userLng) ==
  LET authorizedLat == EnvOr(env.AUTHORIZED_LAT, DefaultLat)
      authorizedLng == EnvOr(env.AUTHORIZED_LNG, DefaultLng)
      radius == EnvOr(env.GEOFENCE_RADIUS, DefaultRadius)
  IN  IF Falsy(userLat) \/ Falsy(userLng)
         \/ Less(userLat, -90000000) \/ Greater(userLat, 90000000)
         \/ Less(userLng, -180000000) \/ Greater(userLng, 180000000)
      THEN [threw |-> TRUE, result |-> NoGeofence]
      ELSE LET distance == calculateDistance(authorizedLat, authorizedLng,
                                             userLat.v, userLng.v)
           IN  [threw |-> FALSE,
                result |-> [isWithin |-> distance < radius * 100,
                            distance |-> MathRound(distance),
                            maxDistance |-> radius,
                            authorizedLocation |->
                              [lat |-> authorizedLat, lng |-> authorizedLng]]]

\* isWithinGeofence that compares with the default radius and reports the
\* configured one
isWithinDefaultRadius(userLat, userLng) ==
  LET authorizedLat == EnvOr(env.AUTHORIZED_LAT, DefaultLat)
      authorizedLng == EnvOr(env.AUTHORIZED_LNG, DefaultLng)
      radius == EnvOr(env.GEOFENCE_RADIUS, DefaultRadius)
  IN  IF Falsy(userLat) \/ Falsy(userLng)
         \/ Less(userLat, -90000000) \/ Greater(userLat, 90000000)
         \/ Less(userLng, -180000000) \/ Greater(userLng, 180000000)
      THEN [threw |-> TRUE, result |-> NoGeofence]
      ELSE LET distance == calculateDistance(authorizedLat, authorizedLng,
                                             userLat.v, userLng.v)
           IN  [threw |-> FALSE,
                result |-> [isWithin |-> distance <= DefaultRadius * 100,
                            distance |-> MathRound(distance),
                            maxDistance |-> radius,
                            authorizedLocation |->
                              [lat |-> authorizedLat, lng |-> authorizedLng]]]

\* isWithinGeofence(userLat, userLng): the result, or threw = TRUE when the
\* function throws 'Geofence validation failed: Invalid coordinates provided'
isWithinGeofence(userLat, userLng) ==
  LET authorizedLat == EnvOr(env.AUTHORIZED_LAT, DefaultLat)
      authorizedLng == EnvOr(env.AUTHORIZED_LNG, DefaultLng)
      radius == EnvOr(env.GEOFENCE_RADIUS, DefaultRadius)
  IN  IF Falsy(userLat) \/ Falsy(userLng)
         \/ Less(userLat, -90000000) \/ Greater(userLat, 90000000)
         \/ Less(userLng, -180000000) \/ Greater(userLng, 180000000)
      THEN [threw |-> TRUE, result |-> NoGeofence]
      ELSE LET distance == calculateDistance(authorizedLat, authorizedLng,
                                             userLat.v, userLng.v)
           IN  [threw |-> FALSE,
                result |-> [isWithin |-> distance <= radius * 100,
                            distance |-> MathRound(distance),
                            maxDistance |-> radius,
                            authorizedLocation |->
                              [lat |-> authorizedLat, lng |-> authorizedLng]]]

\* validateCoordinates(lat, lng) on the raw body fields
validateCoordinates(lat, lng) ==
  LET latitude == parseFloat(lat)
      longitude == parseFloat(lng)
  IN  IF latitude.nan \/ longitude.nan
      THEN [valid |-> FALSE, message |-> "Coordinates must be valid numbers",
            lat |-> NaN, lng |-> NaN]
      ELSE IF Less(latitude, -90000000) \/ Greater(latitude, 90000000)
      THEN [valid |-> FALSE, message |-> "Latitude must be between -90 and 90",
            lat |-> NaN, lng |-> NaN]
      ELSE IF Less(longitude, -180000000) \/ Greater(longitude, 180000000)
      THEN [valid |-> FALSE, message |-> "Longitude must be between -180 and 180",
            lat |-> NaN, lng |-> NaN]
      ELSE [valid |-> TRUE, message |-> "", lat |-> latitude, lng |-> longitude]

----------------------------------------------------------------------------
(* Clock and calendar dates *)

\* new Date().toISOString().split('T')[0] : the UTC calendar date of instant t
Today(t) == t \div TicksPerDay

\* The DATETIME that mysql2 writes for the JavaScript Date of instant t: the
\* pool sets no `timezone`, so the driver writes the server's local wall clock
toDatetime(t) == t + env.TZ

\* MySQL DATE(timestamp) of a stored DATETIME
DATE(ts) == ts \div TicksPerDay

----------------------------------------------------------------------------
(* Requests in flight and responses *)

NoToken == [id |-> "", role |-> "none"]

Idle ==
  [pc |-> "idle", op |-> "none", userId |-> "", lat |-> 0, lng |-> 0,
   file |-> FALSE, today |-> 0, timestamp |-> 0, arg |-> 0, argId |-> ""]

\* What a request carried: the role in its token (none without a token) and,
\* for check-in and check-out, the body fields and whether a photo came
NoBody == [role |-> "none", latitude |-> Missing, longitude |-> Missing,
           file |-> FALSE]

Body(token, latitude, longitude, file) ==
  [role |-> token.role, latitude |-> latitude, longitude |-> longitude,
   file |-> file]

\* The most recent response: the route, the id in the request's token, the
\* HTTP status and message, the geofence object of a 403, and the request
NoResponse ==
  [op |-> "none", userId |-> "", status |-> 0, message |-> "",
   geofence |-> NoGeofence, body |-> NoBody]

Response(op, userId, status, message, body) ==
  [op |-> op, userId |-> userId, status |-> status, message |-> message,
   geofence |-> NoGeofence, body |-> body]

Free(p) == req[p].pc = "idle"

\* The request of a check-in or check-out that passed the synchronous checks
BodyOf(r) ==
  [role |-> "doctor", latitude |-> Text(r.lat), longitude |-> Text(r.lng),
   file |-> r.file]

AdminBody(token) == [NoBody EXCEPT !.role = token.role]

\* The AUTO_INCREMENT counter is bounded by MaxId: an INSERT that needs a
\* larger id is not taken
CanInsert == nextId <= MaxId

----------------------------------------------------------------------------
(* middleware/auth.js *)

\* A middleware that checks the token and not the role in it
authTokenOnly(token, role) == IF token = NoToken THEN 401 ELSE 0

\* authenticateToken followed by requireDoctor / requireAdmin: 0 when the
\* request reaches the handler, else the status of the rejection
authStatus(token, role) ==
  IF token = NoToken THEN 401
  ELSE IF token.role # role THEN 403
  ELSE 0

authMessage(token, role) ==
  IF token = NoToken THEN "Access denied. No token provided."
  ELSE IF role = "admin" THEN "Access denied. Admin privileges required."
  ELSE "Access denied. Doctor privileges required."

----------------------------------------------------------------------------
(* Database statements *)

\* The same SELECT without its `type = ?` condition
SelectAnyType(userId, type, today) ==
  {r \in attendance : r.user_id = userId /\ DATE(r.timestamp) = today}

\* The same SELECT without its `DATE(timestamp) = ?` condition
SelectAnyDate(userId, type, today) ==
  {r \in attendance : r.user_id = userId /\ r.type = type}

\* The SELECT without `user_id = ?`
SelectAnyUser(userId, type, today) ==
  {r \in attendance : r.type = type /\ DATE(r.timestamp) = today}

\* SELECT id FROM attendance
\*   WHERE user_id = ? AND type = ? AND DATE(timestamp) = ?
SelectAttendance(userId, type, today) ==
  {r \in attendance :
     r.user_id = userId /\ r.type = type /\ DATE(r.timestamp) = today}

\* A table without the foreign key: every insert is taken
NoForeignKey(userId) == TRUE

\* FOREIGN KEY (user_id) REFERENCES users(id): the insert is refused when
\* no such user exists
UserExists(userId) == \E u \in users : u.id = userId

\* A row whose timestamp is the request's date at midnight, not the instant
\* of `new Date()`
AttendanceRowDateOnly(r, type) ==
  [id |-> nextId, user_id |-> r.userId, type |-> type,
   timestamp |-> toDatetime(r.today * TicksPerDay),
   photo_path |-> "uploads/attendance/photo.jpg",
   location_lat |-> r.lat, location_lng |-> r.lng]

\* The row of INSERT INTO attendance (user_id, type, timestamp, photo_path,
\* location_lat, location_lng); id is the AUTO_INCREMENT value
AttendanceRow(r, type) ==
  [id |-> nextId, user_id |-> r.userId, type |-> type,
   timestamp |-> toDatetime(r.timestamp),
   photo_path |-> "uploads/attendance/photo.jpg",
   location_lat |-> r.lat, location_lng |-> r.lng]

----------------------------------------------------------------------------
(* routes/doctor.js: POST /checkin and POST /checkout *)

photoMessage(op) ==
  IF op = "checkin" THEN "Photo is required for check-in"
  ELSE "Photo is required for check-out"

\* A handler without the `!req.file` check
FileNotChecked(file) == FALSE

\* !req.file
NoFile(file) == ~file

\* The synchronous part of both handlers, up to the first query: coordinate
\* validation, photo presence, geofence.  go = TRUE when all three pass.
Prelude(op, token, latitude, longitude, file) ==
  LET userId == token.id
      body == Body(token, latitude, longitude, file)
      coordValidation == validateCoordinates(latitude, longitude)
      g == isWithinGeofence(coordValidation.lat, coordValidation.lng)
  IN  IF ~coordValidation.valid
      THEN [go |-> FALSE,
            res |-> Response(op, userId, 400, coordValidation.message, body)]
      ELSE IF NoFile(file)
      THEN [go |-> FALSE,
            res |-> Response(op, userId, 400, photoMessage(op), body)]
      ELSE IF g.threw
      THEN [go |-> FALSE,
            res |-> Response(op, userId, 500, "Internal server error", body)]
      ELSE IF ~g.result.isWithin
      THEN [go |-> FALSE,
            res |-> [Response(op, userId, 403,
                              "You are outside the authorized location", body)
                     EXCEPT !.geofence = g.result]]
      ELSE [go |-> TRUE, res |-> NoResponse]

\* A request arrives: middleware, then the handler up to its first await
DoctorStart(p, op, pc, token, latitude, longitude, file) ==
  /\ Free(p)
  /\ token \in tokens \cup {NoToken}
  /\ LET a == authStatus(token, "doctor")
         pre == Prelude(op, token, latitude, longitude, file)
         cv == validateCoordinates(latitude, longitude)
     IN  IF a # 0
         THEN /\ last' = Response(op, token.id, a, authMessage(token, "doctor"),
                                  Body(token, latitude, longitude, file))
              /\ req' = req
         ELSE IF ~pre.go
         THEN /\ last' = pre.res
              /\ req' = req
         ELSE /\ req' = [req EXCEPT ![p] =
                           [Idle EXCEPT !.pc = pc, !.op = op,
                                        !.userId = token.id,
                                        !.lat = cv.lat.v, !.lng = cv.lng.v,
                                        !.file = file,
                                        !.today = Today(now)]]
              /\ last' = last
  /\ UNCHANGED <<users, attendance, nextId, tokens, now, env>>

CheckinStart(p, token, latitude, longitude, file) ==
  DoctorStart(p, "checkin", "ci_select", token, latitude, longitude, file)

CheckoutStart(p, token, latitude, longitude, file) ==
  DoctorStart(p, "checkout", "co_select1", token, latitude, longitude, file)

\* An INSERT that replaces the user's rows of the same type
DoctorReplace(p, type, pc, message) ==
  /\ req[p].pc = pc
  /\ IF UserExists(req[p].userId)
     THEN /\ CanInsert
          /\ attendance' =
               {r \in attendance :
                  ~(r.user_id = req[p].userId /\ r.type = type)}
                 \cup {AttendanceRow(req[p], type)}
          /\ nextId' = nextId + 1
          /\ last' = Response(type, req[p].userId, 200, message, BodyOf(req[p]))
     ELSE /\ UNCHANGED <<attendance, nextId>>
          /\ last' = Response(type, req[p].userId, 500, "Internal server error",
                              BodyOf(req[p]))
  /\ req' = [req EXCEPT ![p] = Idle]
  /\ UNCHANGED <<users, tokens, now, env>>

\* An INSERT without the foreign key: the row is stored also when the user
\* is gone and the handler answers with an internal error
DoctorInsertUnchecked(p, type, pc, message) ==
  /\ req[p].pc = pc
  /\ CanInsert
  /\ attendance' = attendance \cup {AttendanceRow(req[p], type)}
  /\ nextId' = nextId + 1
  /\ last' = Response(type, req[p].userId,
                      IF UserExists(req[p].userId) THEN 200 ELSE 500,
                      IF UserExists(req[p].userId)
                      THEN message ELSE "Internal server error",
                      BodyOf(req[p]))
  /\ req' = [req EXCEPT ![p] = Idle]
  /\ UNCHANGED <<users, tokens, now, env>>

\* The INSERT runs, and the handler answers
DoctorInsert(p, type, pc, message) ==
  /\ req[p].pc = pc
  /\ IF UserExists(req[p].userId)
     THEN /\ CanInsert
          /\ attendance' = attendance \cup {AttendanceRow(req[p], type)}
          /\ nextId' = nextId + 1
          /\ last' = Response(type, req[p].userId, 200, message, BodyOf(req[p]))
     ELSE /\ UNCHANGED <<attendance, nextId>>
          /\ last' = Response(type, req[p].userId, 500, "Internal server error",
                              BodyOf(req[p]))
  /\ req' = [req EXCEPT ![p] = Idle]
  /\ UNCHANGED <<users, tokens, now, env>>

\* The SELECT of existing check-ins runs; the handler answers 409 or takes
\* the timestamp and issues the INSERT
CheckinSelect(p) ==
  /\ req[p].pc = "ci_select"
  /\ LET existingCheckin ==
           SelectAttendance(req[p].userId, "checkin", req[p].today)
     IN  IF existingCheckin # {}
         THEN /\ last' = Response("checkin", req[p].userId, 409,
                                  "You have already checked in today",
                                  BodyOf(req[p]))
              /\ req' = [req EXCEPT ![p] = Idle]
         ELSE /\ req' = [req EXCEPT ![p].pc = "ci_insert",
                                    ![p].timestamp = now]
              /\ last' = last
  /\ UNCHANGED <<users, attendance, nextId, tokens, now, env>>

CheckinInsert(p) ==
  DoctorInsert(p, "checkin", "ci_insert", "Check-in successful")

\* The SELECT of existing check-ins runs; 400 when there is none
CheckoutSelectCheckin(p) ==
  /\ req[p].pc = "co_select1"
  /\ LET existingCheckin ==
           SelectAttendance(req[p].userId, "checkin", req[p].today)
     IN  IF existingCheckin = {}
         THEN /\ last' = Response("checkout", req[p].userId, 400,
                                  "You must check in before checking out",
                                  BodyOf(req[p]))
              /\ req' = [req EXCEPT ![p] = Idle]
         ELSE /\ req' = [req EXCEPT ![p].pc = "co_select2"]
              /\ last' = last
  /\ UNCHANGED <<users, attendance, nextId, tokens, now, env>>

\* The SELECT of existing check-outs runs; 409 when there is one
CheckoutSelectCheckout(p) ==
  /\ req[p].pc = "co_select2"
  /\ LET existingCheckout ==
           SelectAttendance(req[p].userId, "checkout", req[p].today)
     IN  IF existingCheckout # {}
         THEN /\ last' = Response("checkout", req[p].userId, 409,
                                  "You have already checked out today",
                                  BodyOf(req[p]))
              /\ req' = [req EXCEPT ![p] = Idle]
         ELSE /\ req' = [req EXCEPT ![p].pc = "co_insert",
                                    ![p].timestamp = now]
              /\ last' = last
  /\ UNCHANGED <<users, attendance, nextId, tokens, now, env>>

CheckoutInsert(p) ==
  DoctorInsert(p, "checkout", "co_insert", "Check-out successful")

----------------------------------------------------------------------------
(* routes/doctor.js: GET /status and GET /history *)

\* status.checkin / status.checkout: null, or the timestamp of the first row
\* of that type in timestamp order
NoEvent == [set |-> FALSE, timestamp |-> 0]

\* The earliest row of any type, where the handler takes one per type
FirstOfAnyType(rows, type) ==
  IF rows = {} THEN NoEvent
  ELSE [set |-> TRUE,
        timestamp |->
          (CHOOSE r \in rows : \A q \in rows : r.timestamp <= q.timestamp)
            .timestamp]

FirstOf(rows, type) ==
  LET ofType == {r \in rows : r.type = type}
  IN  IF ofType = {} THEN NoEvent
      ELSE [set |-> TRUE,
            timestamp |->
              (CHOOSE r \in ofType :
                 \A q \in ofType : r.timestamp <= q.timestamp).timestamp]

\* A GET request arrives: middleware, then the handler up to its first await
ReadStart(p, op, pc, token) ==
  /\ Free(p)
  /\ token \in tokens \cup {NoToken}
  /\ LET a == authStatus(token, "doctor")
     IN  IF a # 0
         THEN /\ last' = Response(op, token.id, a, authMessage(token, "doctor"),
                                  [NoBody EXCEPT !.role = token.role])
              /\ req' = req
         ELSE /\ req' = [req EXCEPT ![p] =
                           [Idle EXCEPT !.pc = pc, !.op = op,
                                        !.userId = token.id,
                                        !.today = Today(now)]]
              /\ last' = last
  /\ UNCHANGED <<users, attendance, nextId, tokens, now, env>>

StatusStart(p, token) == ReadStart(p, "status", "st_select", token)

\* SELECT type, timestamp, photo_path ... WHERE user_id = ? AND
\* DATE(timestamp) = ? ORDER BY timestamp ASC runs; the handler answers
StatusSelect(p) ==
  /\ req[p].pc = "st_select"
  /\ LET rows == {r \in attendance : r.user_id = req[p].userId
                                     /\ DATE(r.timestamp) = req[p].today}
     IN  last' = [op |-> "status", userId |-> req[p].userId, status |-> 200,
                  message |-> "", geofence |-> NoGeofence,
                  body |-> [NoBody EXCEPT !.role = "doctor"],
                  data |-> [date |-> req[p].today,
                            checkin |-> FirstOf(rows, "checkin"),
                            checkout |-> FirstOf(rows, "checkout")]]
  /\ req' = [req EXCEPT ![p] = Idle]
  /\ UNCHANGED <<users, attendance, nextId, tokens, now, env>>

HistoryStart(p, token) == ReadStart(p, "history", "hi_count", token)

\* SELECT COUNT(*) ... WHERE user_id = ? runs; arg holds `total`
HistoryCount(p) ==
  /\ req[p].pc = "hi_count"
  /\ req' = [req EXCEPT ![p].pc = "hi_select",
                        ![p].arg = Cardinality({r \in attendance :
                                                 r.user_id = req[p].userId})]
  /\ UNCHANGED <<users, attendance, nextId, tokens, now, env, last>>

\* SELECT id, ... WHERE user_id = ? ORDER BY timestamp DESC LIMIT 10 OFFSET 0
\* runs (page 1 with the default limit holds every row of the model); the
\* handler answers with the ids of the rows and the total
HistorySelect(p) ==
  /\ req[p].pc = "hi_select"
  /\ last' = [op |-> "history", userId |-> req[p].userId, status |-> 200,
              message |-> "", geofence |-> NoGeofence,
              body |-> [NoBody EXCEPT !.role = "doctor"],
              data |-> [records |-> {r.id : r \in {q \in attendance :
                                                    q.user_id = req[p].userId}},
                        total |-> req[p].arg]]
  /\ req' = [req EXCEPT ![p] = Idle]
  /\ UNCHANGED <<users, attendance, nextId, tokens, now, env>>

----------------------------------------------------------------------------
(* routes/admin.js *)

\* Strings of a request body: the text, and whether blanks surround it
Str(text) == [text |-> text, padded |-> FALSE]
Padded(text) == [text |-> text, padded |-> TRUE]

\* !s : only the empty string is falsy
Empty(s) == s.text = "" /\ ~s.padded

\* s.trim()
trim(s) == s.text

\* bcrypt.hash(password, 10)
bcryptHash(password) == [bcrypt |-> password.text]

AdminRow ==
  [id |-> "admin", role |-> "admin",
   password_hash |-> bcryptHash([text |-> "admin123", len |-> 8])]

\* The answer to an admin request, with the id the request was about
Targeted(response, id) == response @@ [target |-> id]

\* POST /create-doctor up to the INSERT: validation, then the SELECT of the id
CreateDoctorStart(p, token, id, name, password) ==
  /\ Free(p)
  /\ token \in tokens \cup {NoToken}
  /\ LET a == authStatus(token, "admin")
     IN  IF a # 0
         THEN /\ last' = Response("create-doctor", token.id, a,
                                  authMessage(token, "admin"),
                                  AdminBody(token))
              /\ req' = req
         ELSE IF Empty(id) \/ Empty(name) \/ password.len = 0
         THEN /\ last' = Targeted(Response("create-doctor", token.id, 400,
                                     "ID, name, and password are required",
                                     AdminBody(token)), trim(id))
              /\ req' = req
         ELSE IF password.len < 6
         THEN /\ last' = Targeted(Response("create-doctor", token.id, 400,
                            "Password must be at least 6 characters long",
                                     AdminBody(token)), trim(id))
              /\ req' = req
         ELSE IF \E u \in users : u.id = trim(id)
         THEN /\ last' = Targeted(Response("create-doctor", token.id, 409,
                                           "Doctor ID already exists",
                                           AdminBody(token)), trim(id))
              /\ req' = req
         ELSE /\ req' = [req EXCEPT ![p] =
                           [Idle EXCEPT !.pc = "cd_insert",
                                        !.op = "create-doctor",
                                        !.userId = token.id,
                                        !.argId = trim(id)]]
              /\ last' = last
  /\ UNCHANGED <<users, attendance, nextId, tokens, now, env>>

\* The INSERT INTO users runs; the primary key refuses a duplicate id
CreateDoctorInsert(p, password) ==
  /\ req[p].pc = "cd_insert"
  /\ IF \E u \in users : u.id = req[p].argId
     THEN /\ users' = users
          /\ last' = Targeted(Response("create-doctor", req[p].userId, 500,
                                       "Internal server error",
                                       [NoBody EXCEPT !.role = "admin"]),
                              req[p].argId)
     ELSE /\ users' = users \cup
                 {[id |-> req[p].argId, role |-> "doctor",
                   password_hash |-> bcryptHash(password)]}
          /\ last' = Targeted(Response("create-doctor", req[p].userId, 200,
                                       "Doctor created successfully",
                                       [NoBody EXCEPT !.role = "admin"]),
                              req[p].argId)
  /\ req' = [req EXCEPT ![p] = Idle]
  /\ UNCHANGED <<attendance, nextId, tokens, now, env>>

\* update-password whose SELECT lacks `AND role = ?`
UpdateAnyPasswordStart(p, token, doctorId, newPassword) ==
  /\ Free(p)
  /\ token \in tokens \cup {NoToken}
  /\ LET a == authStatus(token, "admin")
     IN  IF a # 0
         THEN /\ last' = Response("update-password", token.id, a,
                                  authMessage(token, "admin"),
                                  AdminBody(token))
              /\ req' = req
         ELSE IF doctorId = "" \/ newPassword.len = 0
         THEN /\ last' = Targeted(Response("update-password", token.id, 400,
                                    "Doctor ID and new password are required",
                                    AdminBody(token)), doctorId)
              /\ req' = req
         ELSE IF newPassword.len < 6
         THEN /\ last' = Targeted(Response("update-password", token.id, 400,
                            "Password must be at least 6 characters long",
                                     AdminBody(token)), doctorId)
              /\ req' = req
         ELSE IF ~\E u \in users : u.id = doctorId
         THEN /\ last' = Targeted(Response("update-password", token.id, 404,
                                           "Doctor not found",
                                           AdminBody(token)), doctorId)
              /\ req' = req
         ELSE /\ req' = [req EXCEPT ![p] =
                           [Idle EXCEPT !.pc = "up_update",
                                        !.op = "update-password",
                                        !.userId = token.id,
                                        !.argId = doctorId]]
              /\ last' = last
  /\ UNCHANGED <<users, attendance, nextId, tokens, now, env>>

\* PUT /update-password up to the UPDATE: validation, then the SELECT of the
\* doctor (WHERE id = ? AND role = 'doctor')
UpdatePasswordStart(p, token, doctorId, newPassword) ==
  /\ Free(p)
  /\ token \in tokens \cup {NoToken}
  /\ LET a == authStatus(token, "admin")
     IN  IF a # 0
         THEN /\ last' = Response("update-password", token.id, a,
                                  authMessage(token, "admin"),
                                  AdminBody(token))
              /\ req' = req
         ELSE IF doctorId = "" \/ newPassword.len = 0
         THEN /\ last' = Targeted(Response("update-password", token.id, 400,
                                    "Doctor ID and new password are required",
                                    AdminBody(token)), doctorId)
              /\ req' = req
         ELSE IF newPassword.len < 6
         THEN /\ last' = Targeted(Response("update-password", token.id, 400,
                            "Password must be at least 6 characters long",
                                     AdminBody(token)), doctorId)
              /\ req' = req
         ELSE IF ~\E u \in users : u.id = doctorId /\ u.role = "doctor"
         THEN /\ last' = Targeted(Response("update-password", token.id, 404,
                                           "Doctor not found",
                                           AdminBody(token)), doctorId)
              /\ req' = req
         ELSE /\ req' = [req EXCEPT ![p] =
                           [Idle EXCEPT !.pc = "up_update",
                                        !.op = "update-password",
                                        !.userId = token.id,
                                        !.argId = doctorId]]
              /\ last' = last
  /\ UNCHANGED <<users, attendance, nextId, tokens, now, env>>

\* bcrypt.hash(newPassword, 10), then UPDATE users SET password_hash = ?
\* WHERE id = ? runs (the UPDATE names no role)
UpdatePasswordUpdate(p, newPassword) ==
  /\ req[p].pc = "up_update"
  /\ users' = {IF u.id = req[p].argId
                THEN [u EXCEPT !.password_hash = bcryptHash(newPassword)]
                ELSE u : u \in users}
  /\ last' = Targeted(Response("update-password", req[p].userId, 200,
                               "Password updated successfully",
                               [NoBody EXCEPT !.role = "admin"]),
                      req[p].argId)
  /\ req' = [req EXCEPT ![p] = Idle]
  /\ UNCHANGED <<attendance, nextId, tokens, now, env>>

\* DELETE /delete-doctor/:doctorId up to the DELETE: the SELECT of the doctor
DeleteDoctorStart(p, token, doctorId) ==
  /\ Free(p)
  /\ token \in tokens \cup {NoToken}
  /\ LET a == authStatus(token, "admin")
     IN  IF a # 0
         THEN /\ last' = Response("delete-doctor", token.id, a,
                                  authMessage(token, "admin"),
                                  AdminBody(token))
              /\ req' = req
         ELSE IF ~\E u \in users : u.id = doctorId /\ u.role = "doctor"
         THEN /\ last' = Targeted(Response("delete-doctor", token.id, 404,
                                           "Doctor not found",
                                           AdminBody(token)), doctorId)
              /\ req' = req
         ELSE /\ req' = [req EXCEPT ![p] =
                           [Idle EXCEPT !.pc = "dd_delete",
                                        !.op = "delete-doctor",
                                        !.userId = token.id,
                                        !.argId = doctorId]]
              /\ last' = last
  /\ UNCHANGED <<users, attendance, nextId, tokens, now, env>>

\* DELETE FROM users WHERE id = ? AND role = 'doctor' runs; ON DELETE CASCADE
\* removes the attendance rows of the deleted user
DeleteDoctorDelete(p) ==
  /\ req[p].pc = "dd_delete"
  /\ LET gone == {u \in users : u.id = req[p].argId /\ u.role = "doctor"}
     IN  /\ users' = users \ gone
         /\ attendance' =
              {r \in attendance : ~\E u \in gone : u.id = r.user_id}
  /\ last' = Targeted(Response("delete-doctor", req[p].userId, 200,
                               "Doctor deleted successfully",
                               [NoBody EXCEPT !.role = "admin"]),
                      req[p].argId)
  /\ req' = [req EXCEPT ![p] = Idle]
  /\ UNCHANGED <<nextId, tokens, now, env>>

\* DELETE /delete-attendance/:attendanceId up to the DELETE: the SELECT
DeleteAttendanceStart(p, token, attendanceId) ==
  /\ Free(p)
  /\ token \in tokens \cup {NoToken}
  /\ LET a == authStatus(token, "admin")
     IN  IF a # 0
         THEN /\ last' = Response("delete-attendance", token.id, a,
                                  authMessage(token, "admin"),
                                  AdminBody(token))
              /\ req' = req
         ELSE IF ~\E r \in attendance : r.id = attendanceId
         THEN /\ last' = Response("delete-attendance", token.id, 404,
                                  "Attendance record not found",
                                  AdminBody(token))
              /\ req' = req
         ELSE /\ req' = [req EXCEPT ![p] =
                           [Idle EXCEPT !.pc = "da_delete",
                                        !.op = "delete-attendance",
                                        !.userId = token.id,
                                        !.arg = attendanceId]]
              /\ last' = last
  /\ UNCHANGED <<users, attendance, nextId, tokens, now, env>>

\* DELETE FROM attendance WHERE id = ? runs
DeleteAttendanceDelete(p) ==
  /\ req[p].pc = "da_delete"
  /\ attendance' = {r \in attendance : r.id # req[p].arg}
  /\ last' = Response("delete-attendance", req[p].userId, 200,
                      "Attendance record deleted successfully",
                      [NoBody EXCEPT !.role = "admin"])
  /\ req' = [req EXCEPT ![p] = Idle]
  /\ UNCHANGED <<users, nextId, tokens, now, env>>

----------------------------------------------------------------------------
(* Login and the clock *)

\* POST /auth/login with the right password: a token carrying the id and role
Login(u) ==
  /\ u \in users
  /\ tokens' = tokens \cup {[id |-> u.id, role |-> u.role]}
  /\ UNCHANGED <<users, attendance, nextId, now, env, req, last>>

Tick ==
  /\ now < MaxNow
  /\ now' = now + 1
  /\ UNCHANGED <<users, attendance, nextId, tokens, env, req, last>>

----------------------------------------------------------------------------
(* Inputs *)

Unset == [set |-> FALSE, v |-> 0]

Envs ==
  {[AUTHORIZED_LAT |-> Unset, AUTHORIZED_LNG |-> Unset,
    GEOFENCE_RADIUS |-> Unset, TZ |-> tz] : tz \in TzOffsets}

North400 == DefaultLat + 3597   \* 400 m north of the default authorized point
North600 == DefaultLat + 5396   \* 600 m north of it

\* (latitude, longitude) body fields of the check-in and check-out requests
BodyCoords ==
  {<<Text(North400), Text(DefaultLng)>>,
   <<Text(North600), Text(DefaultLng)>>,
   <<Text(0), Text(DefaultLng)>>,
   <<Text(91000000), Text(DefaultLng)>>,
   <<Garbage, Text(DefaultLng)>>}

DoctorIdInputs == {Str("d1"), Padded("d1"), Str("admin"), Str("")}
Passwords == {[text |-> "12345", len |-> 5], [text |-> "secret1", len |-> 7]}

\* doctorId and newPassword of an update-password request
UpdateIdInputs == Doctors \cup {"admin", ""}
NewPassword == [text |-> "changed", len |-> 7]

TokenInputs == {NoToken} \cup {[id |-> i, role |-> r] :
                  i \in Doctors \cup {"admin"}, r \in {"admin", "doctor"}}

----------------------------------------------------------------------------
(* The system *)

Init ==
  /\ users = {AdminRow}
  /\ attendance = {}
  /\ nextId = 1
  /\ tokens = {}
  /\ now = 0
  /\ env \in Envs
  /\ req = [p \in Procs |-> Idle]
  /\ last = NoResponse

\* The request slot a new request takes: the slots are interchangeable, so
\* it is the lowest free one
FreeSlot(P) == {p \in P : Free(p) /\ \A q \in P : q < p => ~Free(q)}

\* The steps of the system with requests in the slots P, tokens drawn from
\* dtoks (doctor routes) and atoks (admin routes), and body fields from
\* coords and files
NextWith(P, dtoks, atoks, coords, files, ids, pws) ==
  \/ \E u \in users : Login(u)
  \/ Tick
  \/ \E p \in FreeSlot(P), t \in dtoks, c \in coords, f \in files :
       CheckinStart(p, t, c[1], c[2], f)
  \/ \E p \in P : CheckinSelect(p)
  \/ \E p \in P : CheckinInsert(p)
  \/ \E p \in FreeSlot(P), t \in dtoks, c \in coords, f \in files :
       CheckoutStart(p, t, c[1], c[2], f)
  \/ \E p \in P : CheckoutSelectCheckin(p)
  \/ \E p \in P : CheckoutSelectCheckout(p)
  \/ \E p \in P : CheckoutInsert(p)
  \/ \E p \in FreeSlot(P), t \in atoks, i \in ids, pw \in pws :
       CreateDoctorStart(p, t, i, Str("Dr"), pw)
  \/ \E p \in P : CreateDoctorInsert(p, [text |-> "secret1", len |-> 7])
  \/ \E p \in FreeSlot(P), t \in atoks, i \in Doctors \cup {"admin"} :
       DeleteDoctorStart(p, t, i)
  \/ \E p \in P : DeleteDoctorDelete(p)
  \/ \E p \in FreeSlot(P), t \in atoks, a \in 1..MaxId :
       DeleteAttendanceStart(p, t, a)
  \/ \E p \in P : DeleteAttendanceDelete(p)

DoctorTokens == {t \in TokenInputs : t.role = "doctor"}
AdminTokens == {t \in TokenInputs : t.role = "admin"}

\* Concurrent requests that pass the middleware and the synchronous checks
Next ==
  NextWith(Procs, {[id |-> "d1", role |-> "doctor"]}, AdminTokens,
           {<<Text(North400), Text(DefaultLng)>>}, {TRUE},
           {Str("d1")}, {[text |-> "secret1", len |-> 7]})

Spec == Init /\ [][Next]_vars

\* The same system on a server whose local time is UTC
InitUTC == Init /\ env.TZ = 0

SpecUTC == InitUTC /\ [][Next]_vars

\* The GET routes of the doctor router, with tokens drawn from dtoks
ReadsWith(P, dtoks) ==
  \/ \E p \in FreeSlot(P), t \in dtoks : StatusStart(p, t)
  \/ \E p \in P : StatusSelect(p)
  \/ \E p \in FreeSlot(P), t \in dtoks : HistoryStart(p, t)
  \/ \E p \in P : HistoryCount(p)
  \/ \E p \in P : HistorySelect(p)

\* One request at a time, with every token and every body
NextRequests == NextWith({1}, TokenInputs, TokenInputs, BodyCoords, BOOLEAN,
           DoctorIdInputs, Passwords)

SpecRequests == Init /\ [][NextRequests]_vars

\* Doctor d1's requests, reads included, and the administrator's, one request
\* at a time and all passing the synchronous checks, claimed from 400 m
\* north of the authorized point or from the point itself
NextDoctor ==
  \/ NextWith({1}, {[id |-> "d1", role |-> "doctor"]}, AdminTokens,
              {<<Text(North400), Text(DefaultLng)>>,
               <<Text(DefaultLat), Text(DefaultLng)>>}, {TRUE},
              {Str("d1")}, {[text |-> "secret1", len |-> 7]})
  \/ ReadsWith({1}, {[id |-> "d1", role |-> "doctor"]})

SpecDoctor == Init /\ [][NextDoctor]_vars

\* The same on a server whose local time is UTC
SpecDoctorUTC == InitUTC /\ [][NextDoctor]_vars

\* PUT /update-password, with tokens drawn from atoks
UpdatesWith(P, atoks, ids, pws) ==
  \/ \E p \in FreeSlot(P), t \in atoks, i \in ids, pw \in pws :
       UpdatePasswordStart(p, t, i, pw)
  \/ \E p \in P : UpdatePasswordUpdate(p, NewPassword)

\* Ids of create-doctor requests: new, taken, the administrator's, blank
AdminIdInputs ==
  {Str("d1"), Padded("d1"), Str("d2"), Str("admin"), Padded("admin"), Str("")}

\* The administrator's routes on the users table, two requests at a time,
\* with every token, id and password
NextAdmin ==
  \/ \E u \in users : Login(u)
  \/ \E p \in FreeSlot(Procs), t \in TokenInputs, i \in AdminIdInputs,
        pw \in Passwords :
       CreateDoctorStart(p, t, i, Str("Dr"), pw)
  \/ \E p \in Procs : CreateDoctorInsert(p, [text |-> "secret1", len |-> 7])
  \/ \E p \in FreeSlot(Procs), t \in TokenInputs, i \in Doctors \cup {"admin"} :
       DeleteDoctorStart(p, t, i)
  \/ \E p \in Procs : DeleteDoctorDelete(p)
  \/ UpdatesWith(Procs, TokenInputs, UpdateIdInputs,
                 {NewPassword, [text |-> "12345", len |-> 5]})

SpecAdmin == Init /\ [][NextAdmin]_vars

\* Two doctors and the administrator, one request at a time, all requests
\* passing the synchronous checks
NextTwoDoctors ==
  NextWith({1}, DoctorTokens, AdminTokens,
           {<<Text(North400), Text(DefaultLng)>>}, {TRUE},
           {Str("d1"), Str("d2")}, {[text |-> "secret1", len |-> 7]})

SpecTwoDoctors == Init /\ [][NextTwoDoctors]_vars

\* Every route called with every token, one request at a time, with bodies
\* that pass the synchronous checks
NextAccess ==
  \/ NextWith({1}, TokenInputs, TokenInputs,
              {<<Text(North400), Text(DefaultLng)>>}, {TRUE},
              {Str("d1")}, {[text |-> "secret1", len |-> 7]})
  \/ ReadsWith({1}, TokenInputs)

SpecAccess == Init /\ [][NextAccess]_vars

----------------------------------------------------------------------------
(* utils/geofence.js called directly *)

\* The most recent call of a geofence function: its arguments and what it
\* returned (threw = TRUE when it threw instead)
NoCall == [fn |-> "none", lat |-> Missing, lng |-> Missing, threw |-> FALSE,
           out |-> NoGeofence]

Call(fn, lat, lng, threw, out) ==
  [fn |-> fn, lat |-> lat, lng |-> lng, threw |-> threw, out |-> out]

\* A radius of 0.1 degree of latitude, in metres (R * PI / 1800)
WideRadius == CmPerMilliDeg

\* A configured longitude other than the default one
OtherLng == DefaultLng + 1000

Configured(v) == [set |-> TRUE, v |-> v]

\* The authorized point left unset, configured on the equator, and configured
\* 600 m north of the default point; the radius unset or configured
GeofenceEnvs ==
  {[AUTHORIZED_LAT |-> pt[1], AUTHORIZED_LNG |-> pt[2],
    GEOFENCE_RADIUS |-> r, TZ |-> 0] :
     pt \in {<<Unset, Unset>>,
             <<Configured(0), Configured(OtherLng)>>,
             <<Configured(North600), Configured(OtherLng)>>},
     r \in {Unset, Configured(WideRadius)}}

\* Offsets (micro-degrees of latitude) of the claimed points from the
\* authorized one: 0 m, 400 m, 499.91 m, 500.02 m, 600 m, 11119 m, 11120 m
LatOffsets == {0, 3597, 4496, 4497, 5396, 100000, 100009}

\* Numbers, null and undefined passed to isWithinGeofence
LatValues ==
  {Num(DefaultLat + d) : d \in LatOffsets}
    \cup {Num(0), Num(90000000), Num(-90000000), Num(91000000), Undefined, Null}
LngValues ==
  {Num(DefaultLng), Num(OtherLng), Num(0), Num(181000000), Undefined, Null}

\* Points (micro-degrees) passed to calculateDistance
PointLats == {DefaultLat, North400, 0, 90000000, -90000000}
PointLngs == {DefaultLng, 0, 180000000, -180000000}

\* Raw values passed to validateCoordinates
RawLats ==
  {Text(DefaultLat), Text(0), Text(90000000), Text(-90000000),
   Text(90000001), Text(-90000001), Garbage, Missing, InfinityText,
   MinusInfinityText}
RawLngs ==
  {Text(DefaultLng), Text(0), Text(180000000), Text(-180000000),
   Text(180000001), Text(-180000001), Garbage, Missing, InfinityText,
   MinusInfinityText}

\* calculateDistance is modelled for equal longitudes and for the poles
Computable(userLat, userLng) ==
  userLng.v = EnvOr(env.AUTHORIZED_LNG, DefaultLng) \/ Abs(userLat.v) = 90000000

CallIsWithinGeofence(userLat, userLng) ==
  /\ Computable(userLat, userLng)
  /\ LET g == isWithinGeofence(userLat, userLng)
     IN  last' = Call("isWithinGeofence", userLat, userLng, g.threw, g.result)
  /\ UNCHANGED <<users, attendance, nextId, tokens, now, env, req>>

\* calculateDistance(lat1, lon1, lat2, lon2), for the pairs of points the
\* model computes; the call is recorded with its second point as argument
\* and its first point beside the distance
CallCalculateDistance(lat1, lon1, lat2, lon2) ==
  /\ lon1 = lon2 \/ Abs(lat1) = 90000000 \/ Abs(lat2) = 90000000
  /\ last' = Call("calculateDistance", Num(lat2), Num(lon2), FALSE,
                  [from |-> [lat |-> lat1, lng |-> lon1],
                   distance |-> calculateDistance(lat1, lon1, lat2, lon2)])
  /\ UNCHANGED <<users, attendance, nextId, tokens, now, env, req>>

CallValidateCoordinates(lat, lng) ==
  /\ LET v == validateCoordinates(lat, lng)
     IN  last' = Call("validateCoordinates", lat, lng, ~v.valid,
                      [message |-> v.message, lat |-> v.lat, lng |-> v.lng])
  /\ UNCHANGED <<users, attendance, nextId, tokens, now, env, req>>

InitGeofence ==
  /\ users = {AdminRow}
  /\ attendance = {}
  /\ nextId = 1
  /\ tokens = {}
  /\ now = 0
  /\ env \in GeofenceEnvs
  /\ req = [p \in Procs |-> Idle]
  /\ last = NoCall

NextGeofence ==
  \/ \E userLat \in LatValues, userLng \in LngValues :
       CallIsWithinGeofence(userLat, userLng)
  \/ \E lat \in RawLats, lng \in RawLngs : CallValidateCoordinates(lat, lng)
  \/ \E lat1 \in PointLats, lon1 \in PointLngs,
        lat2 \in PointLats, lon2 \in PointLngs :
       CallCalculateDistance(lat1, lon1, lat2, lon2)

SpecGeofence == InitGeofence /\ [][NextGeofence]_vars

----------------------------------------------------------------------------
(* Vocabulary of the properties *)

\* The attendance rows, in a given table, of one user, type and calendar date
RowsIn(table, userId, type, date) ==
  {r \in table : r.user_id = userId /\ r.type = type
                 /\ r.timestamp \div TicksPerDay = date}

Rows(userId, type, date) == RowsIn(attendance, userId, type, date)

Dates == {r.timestamp \div TicksPerDay : r \in attendance}
UserIds == {r.user_id : r \in attendance}

\* Slot p takes the step of the handler that is at pc
Steps(p, pc) == req[p].pc = pc /\ req'[p] # req[p]

\* This step sends a response
Responds == last' # last

----------------------------------------------------------------------------
(* Properties *)

\* C1: in every reachable state there is at most one check-in row for any
\* user and calendar date, also when check-in requests of one user interleave.
C1_AtMostOneCheckin ==
  \A u \in UserIds, d \in Dates : Cardinality(Rows(u, "checkin", d)) <= 1

\* C2: in every reachable state there is at most one check-out row for any
\* user and calendar date, also when check-out requests of one user interleave.
C2_AtMostOneCheckout ==
  \A u \in UserIds, d \in Dates : Cardinality(Rows(u, "checkout", d)) <= 1

\* C3: in every reachable state a check-out row exists for a user and date
\* only if a check-in row of that user and date exists.
C3_CheckoutOnlyWithCheckin ==
  \A u \in UserIds, d \in Dates :
    Rows(u, "checkout", d) # {} => Rows(u, "checkin", d) # {}

\* The calendar date of instant t in UTC and on the server's local clock
UtcDate(t) == t \div TicksPerDay
LocalDate(t) == (t + env.TZ) \div TicksPerDay

\* Row r was written during the current day, on the UTC and the local calendar
MadeToday(r) ==
  /\ UtcDate(r.timestamp - env.TZ) = UtcDate(now)
  /\ LocalDate(r.timestamp - env.TZ) = LocalDate(now)

Exists(userId) == \E u \in users : u.id = userId

\* The step adds exactly one row, of this user and type, and changes no other
AddsOne(userId, type) ==
  \E r \in attendance' :
    /\ r \notin attendance
    /\ attendance' = attendance \cup {r}
    /\ r.user_id = userId /\ r.type = type

AlreadyCheckedIn(p) ==
  Response("checkin", req[p].userId, 409, "You have already checked in today",
           BodyOf(req[p]))

NotCheckedIn(p) ==
  Response("checkout", req[p].userId, 400,
           "You must check in before checking out", BodyOf(req[p]))

AlreadyCheckedOut(p) ==
  Response("checkout", req[p].userId, 409,
           "You have already checked out today", BodyOf(req[p]))

\* The handler in slot p answers with response r, makes no row and ends
Rejects(p, r) == last' = r /\ attendance' = attendance /\ req'[p] = Idle

\* C4: a check-in that passed the coordinate, photo and geofence checks is
\* rejected with 409 when a check-in row of the user exists for the request's
\* day and otherwise succeeds; a second check-in made the same day as a
\* successful first one is rejected with 409.
C4_CheckinOncePerDay ==
  [][\A p \in Procs :
       LET u == req[p].userId
       IN  /\ Steps(p, "ci_select") =>
                /\ Rows(u, "checkin", req[p].today) # {}
                     => Rejects(p, AlreadyCheckedIn(p))
                /\ Rows(u, "checkin", req[p].today) = {}
                     => req'[p].pc = "ci_insert"
                /\ ( /\ req[p].today = UtcDate(now)
                     /\ \E r \in attendance :
                          r.user_id = u /\ r.type = "checkin" /\ MadeToday(r) )
                     => Rejects(p, AlreadyCheckedIn(p))
           /\ (Steps(p, "ci_insert") /\ Exists(u)) =>
                last'.status = 200 /\ AddsOne(u, "checkin")]_vars

C7_CheckedOutIsFinal ==
  [][\A p \in Procs :
       LET u == req[p].userId
           checkedOut ==
             /\ req[p].today = UtcDate(now)
             /\ \E r \in attendance :
                  r.user_id = u /\ r.type = "checkin" /\ MadeToday(r)
             /\ \E r \in attendance :
                  r.user_id = u /\ r.type = "checkout" /\ MadeToday(r)
       IN  checkedOut =>
             /\ Steps(p, "ci_select") => Rejects(p, AlreadyCheckedIn(p))
             /\ Steps(p, "co_select1") => attendance' = attendance
             /\ Steps(p, "co_select2") => Rejects(p, AlreadyCheckedOut(p))]_vars

\* C8: when the administrator's DELETE removes a user's check-in (check-out)
\* row, no check-in (check-out) row of that user remains for that date, so
\* the next check-in (check-out) for that day is not answered with 409.
C8_DeletionClearsTheDay ==
  [][\A p \in Procs :
       Steps(p, "da_delete") =>
         \A r \in attendance :
           r.id = req[p].arg =>
             RowsIn(attendance', r.user_id, r.type,
                    r.timestamp \div TicksPerDay) = {}]_vars

\* The (latitude, longitude) of a request body are well-formed
WellFormed(body) == validateCoordinates(body.latitude, body.longitude).valid

\* The geofence configuration in force
Authorized ==
  [lat |-> EnvOr(env.AUTHORIZED_LAT, DefaultLat),
   lng |-> EnvOr(env.AUTHORIZED_LNG, DefaultLng),
   radius |-> EnvOr(env.GEOFENCE_RADIUS, DefaultRadius)]

\* Distance in centimetres of the body's coordinate from the authorized point
DistanceOf(body) ==
  calculateDistance(Authorized.lat, Authorized.lng,
                    parseFloat(body.latitude).v, parseFloat(body.longitude).v)

\* The step answers a check-in or check-out request of a doctor
AnswersDoctor ==
  /\ Responds
  /\ last'.op \in {"checkin", "checkout"}
  /\ last'.body.role = "doctor"

\* C9: a check-in or check-out of a doctor, with well-formed coordinates and a
\* photo, whose coordinate is farther from the authorized point than the
\* radius is answered with 403 and the geofence result (isWithin = false,
\* the rounded distance, the radius, the authorized point), and no row is made.
C9_OutsideGeofence ==
  [][(/\ AnswersDoctor
      /\ last'.body.file
      /\ WellFormed(last'.body)
      /\ DistanceOf(last'.body) > Authorized.radius * 100)
     => /\ last'.status = 403
        /\ last'.message = "You are outside the authorized location"
        /\ last'.geofence =
             [isWithin |-> FALSE,
              distance |-> MathRound(DistanceOf(last'.body)),
              maxDistance |-> Authorized.radius,
              authorizedLocation |->
                [lat |-> Authorized.lat, lng |-> Authorized.lng]]
        /\ attendance' = attendance]_vars

\* C10 as stated: a check-in or check-out of a doctor without a photo is
\* answered with 400 and the photo message and makes no row, whatever the
\* claimed location and the rows of the user.
C10_AsStated ==
  [][(AnswersDoctor /\ ~last'.body.file)
     => /\ last'.status = 400
        /\ last'.message = photoMessage(last'.op)
        /\ attendance' = attendance]_vars

\* C10 amended: as C10, for requests whose coordinates are well-formed
\* (numbers within [-90, 90] and [-180, 180]); the coordinates are validated
\* before the photo is looked at.
C10_PhotoRequired ==
  [][(AnswersDoctor /\ ~last'.body.file /\ WellFormed(last'.body))
     => /\ last'.status = 400
        /\ last'.message = photoMessage(last'.op)
        /\ attendance' = attendance]_vars

\* C10 happens: a check-out without a photo, claimed from outside the fence
\* by a user who has checked in, is answered with the photo message.
C10_Witness ==
  /\ last.op = "checkout" /\ last.status = 400
  /\ last.message = "Photo is required for check-out"
  /\ ~last.body.file
  /\ last.body.latitude = Text(North600)
  /\ \E r \in attendance : r.user_id = last.userId /\ r.type = "checkin"

\* The distance in centimetres that isWithinGeofence computes for the
\* arguments of the last call
ComputedDistance ==
  calculateDistance(Authorized.lat, Authorized.lng, last.lat.v, last.lng.v)

\* C11: whenever isWithinGeofence returns a result, isWithin is true exactly
\* when the computed distance is at most the configured radius: a point at
\* exactly the radius is within, a point one metre farther is not.
C11_WithinIffNotFarther ==
  (last.fn = "isWithinGeofence" /\ ~last.threw) =>
    /\ last.out.isWithin <=> ComputedDistance <= Authorized.radius * 100
    /\ ComputedDistance = Authorized.radius * 100 => last.out.isWithin
    /\ ComputedDistance = Authorized.radius * 100 + 100 => ~last.out.isWithin

\* C11 happens: the point of the last call is at exactly the radius, and it
\* is classified as within.
C11_Witness ==
  /\ last.fn = "isWithinGeofence" /\ ~last.threw
  /\ ComputedDistance = Authorized.radius * 100
  /\ last.out.isWithin

\* C12: at every instant, on a server with any offset from UTC, the `today`
\* that a request uses to look up rows is the date that the lookup derives
\* from the timestamp stored by a request made at that instant.
C12_LookupDayIsRecordDay == Today(now) = DATE(toDatetime(now))

\* A JavaScript number that is neither NaN nor infinite
Finite(x) == ~x.nan /\ x.inf = 0

InvalidFormat == "Coordinates must be valid numbers"
LatitudeOutOfRange == "Latitude must be between -90 and 90"
LongitudeOutOfRange == "Longitude must be between -180 and 180"

\* C13: validateCoordinates fails with 'Coordinates must be valid numbers'
\* whenever one of its inputs does not parse to a finite number (text that is
\* no number, a missing value, an infinite value), whatever the other is.
C13_InvalidFormat ==
  (/\ last.fn = "validateCoordinates"
   /\ ~(Finite(parseFloat(last.lat)) /\ Finite(parseFloat(last.lng))))
    => last.threw /\ last.out.message = InvalidFormat

\* C14: for inputs that parse to finite numbers, validateCoordinates fails
\* with the latitude message when the latitude is outside [-90, 90], else
\* with the longitude message when the longitude is outside [-180, 180],
\* and else succeeds and returns the parsed pair; -90, 90, -180 and 180 are
\* accepted.
C14_RangeChecks ==
  LET latitude == parseFloat(last.lat)
      longitude == parseFloat(last.lng)
  IN  (last.fn = "validateCoordinates" /\ Finite(latitude) /\ Finite(longitude))
        => IF latitude.v < -90000000 \/ latitude.v > 90000000
           THEN last.threw /\ last.out.message = LatitudeOutOfRange
           ELSE IF longitude.v < -180000000 \/ longitude.v > 180000000
           THEN last.threw /\ last.out.message = LongitudeOutOfRange
           ELSE /\ ~last.threw
                /\ last.out.lat = latitude /\ last.out.lng = longitude

\* C14 happens: the call with latitude 90 and longitude -180 succeeded.
C14_Witness ==
  /\ last.fn = "validateCoordinates" /\ ~last.threw
  /\ last.lat = Text(90000000) /\ last.lng = Text(-180000000)
  /\ last.out.lat = Num(90000000) /\ last.out.lng = Num(-180000000)

\* C15: isWithinGeofence throws 'Invalid coordinates provided' when its
\* latitude or its longitude is null or undefined, and returns no result.
C15_InvalidCoordinates ==
  (/\ last.fn = "isWithinGeofence"
   /\ (last.lat \in {Undefined, Null} \/ last.lng \in {Undefined, Null}))
    => last.threw /\ last.out = NoGeofence

\* C15 happens: the last call had latitude 90 and an undefined longitude,
\* and threw.
C15_Witness ==
  /\ last.fn = "isWithinGeofence"
  /\ last.lat = Num(90000000) /\ last.lng = Undefined
  /\ last.threw

\* A row of this user and type was written at the current instant
WrittenNow(userId, type) ==
  \E r \in attendance :
    r.user_id = userId /\ r.type = type /\ r.timestamp = toDatetime(now)

RowsOf(userId, type) == {r \in attendance : r.user_id = userId /\ r.type = type}

\* C16: for one user on one day, with the radius 500 m: a check-in claimed
\* 400 m from the authorized point by a user without rows succeeds and makes
\* a check-in row of the user; a check-in made right after it is rejected
\* with 409; a check-out claimed 600 m away is rejected with 403, distance
\* 600 and maxDistance 500, and makes no row; a check-out claimed 400 m
\* away, made right after the check-in, succeeds.
C16_EndToEnd ==
  [][/\ \A p \in Procs :
         LET u == req[p].userId
             fresh == req[p].today = Today(now)
         IN  /\ (/\ Steps(p, "ci_select") /\ req[p].lat = North400
                  /\ RowsOf(u, "checkin") = {})
                   => req'[p].pc = "ci_insert"
             /\ (Steps(p, "ci_insert") /\ Exists(u))
                   => last'.status = 200 /\ AddsOne(u, "checkin")
             /\ (Steps(p, "ci_select") /\ fresh /\ WrittenNow(u, "checkin"))
                   => Rejects(p, AlreadyCheckedIn(p))
             /\ (/\ Steps(p, "co_select1") /\ req[p].lat = North400 /\ fresh
                  /\ WrittenNow(u, "checkin"))
                   => req'[p].pc = "co_select2"
             /\ (/\ Steps(p, "co_select2") /\ fresh
                  /\ WrittenNow(u, "checkin") /\ RowsOf(u, "checkout") = {})
                   => req'[p].pc = "co_insert"
             /\ (Steps(p, "co_insert") /\ Exists(u))
                   => last'.status = 200 /\ AddsOne(u, "checkout")
     /\ (/\ AnswersDoctor /\ last'.op = "checkout" /\ last'.body.file
         /\ last'.body.latitude = Text(North600)
         /\ last'.body.longitude = Text(DefaultLng))
          => /\ last'.status = 403
             /\ last'.geofence.distance = 600
             /\ last'.geofence.maxDistance = 500
             /\ attendance' = attendance]_vars

\* Slot p takes a step of a check-in, check-out, status or history request
DoctorStep(p) ==
  /\ req'[p] # req[p]
  /\ {req[p].op, req'[p].op} \cap {"checkin", "checkout", "status", "history"}
       # {}

\* C17: a successful check-in or check-out adds exactly one row, with a new
\* id, and leaves every other row as it is; no step of a check-in, check-out,
\* status or history request removes or changes a row; a row disappears
\* only in the DELETE of delete-attendance for its id or in the DELETE of
\* delete-doctor for its user.
C17_RecordsChangeOnlyByDeletion ==
  [][/\ \A p \in Procs :
         /\ ((Steps(p, "ci_insert") \/ Steps(p, "co_insert"))
              /\ last'.status = 200)
               => \E r \in attendance' :
                    /\ attendance' = attendance \cup {r}
                    /\ \A q \in attendance : q.id # r.id
         /\ DoctorStep(p) => attendance \subseteq attendance'
     /\ \A r \in attendance :
          r \notin attendance' =>
            \E p \in Procs :
              \/ Steps(p, "da_delete") /\ req[p].arg = r.id
              \/ Steps(p, "dd_delete") /\ req[p].argId = r.user_id]_vars

\* C17 happens: a check-out has just succeeded, and the check-in row made
\* before it is still there.
C17_Witness ==
  /\ last.op = "checkout" /\ last.status = 200
  /\ \E r, q \in attendance :
       /\ r.user_id = last.userId /\ r.type = "checkin"
       /\ q.user_id = last.userId /\ q.type = "checkout" /\ r.id < q.id

\* C18: the timestamp of a row is the server's clock at the handler's
\* `new Date()`, whatever the request body holds: the handler takes the
\* current instant when its last SELECT has answered, and the INSERT stores
\* that instant.
C18_ServerTimestamp ==
  [][\A p \in Procs :
       /\ ((Steps(p, "ci_select") \/ Steps(p, "co_select2"))
            /\ req'[p].pc \in {"ci_insert", "co_insert"})
             => req'[p].timestamp = now
       /\ ((Steps(p, "ci_insert") \/ Steps(p, "co_insert"))
            /\ last'.status = 200)
             => \E r \in attendance' \ attendance :
                  r.timestamp = toDatetime(req[p].timestamp)]_vars

\* C18 happens: two rows were made at the same instant by requests with
\* different bodies, and carry the same timestamp.
C18_Witness ==
  \E r, q \in attendance :
    /\ r.location_lat # q.location_lat
    /\ r.timestamp = q.timestamp
    /\ r.timestamp = toDatetime(now)

\* C19: in every reachable state every attendance row belongs to exactly one
\* existing user: its user_id is the id of one row of users, also after a
\* doctor was deleted while a check-in or check-out of that doctor was in
\* flight or while a token of that doctor was still in use.
C19_RowsHaveOwners ==
  \A r \in attendance : Cardinality({u \in users : u.id = r.user_id}) = 1

\* C19 happens: a check-in or check-out of a doctor who was deleted meanwhile
\* has run its INSERT and was refused.
C19_Witness ==
  /\ last.op \in {"checkin", "checkout"} /\ last.status = 500
  /\ ~Exists(last.userId)
  /\ \A r \in attendance : r.user_id # last.userId

DoctorOps == {"checkin", "checkout", "status", "history"}
AdminOps == {"create-doctor", "delete-doctor", "delete-attendance"}

\* The role that the router of a route requires
RequiredRole(op) == IF op \in DoctorOps THEN "doctor" ELSE "admin"

----------------------------------------------------------------------------
(* Geofence configuration and distances *)

\* C21: every result of isWithinGeofence is evaluated against the configured
\* point and radius where AUTHORIZED_LAT, AUTHORIZED_LNG and GEOFENCE_RADIUS
\* are set and against (-6.2, 106.816666) and 500 m where they are not:
\* maxDistance is the radius used, authorizedLocation the point used, and
\* the distance and the verdict are those of that point and radius.
C21_ConfiguredOrDefault ==
  LET lat == IF env.AUTHORIZED_LAT.set THEN env.AUTHORIZED_LAT.v ELSE -6200000
      lng == IF env.AUTHORIZED_LNG.set THEN env.AUTHORIZED_LNG.v ELSE 106816666
      radius == IF env.GEOFENCE_RADIUS.set THEN env.GEOFENCE_RADIUS.v ELSE 500
      toPoint == calculateDistance(lat, lng, last.lat.v, last.lng.v)
  IN  (last.fn = "isWithinGeofence" /\ ~last.threw) =>
        /\ last.out.maxDistance = radius
        /\ last.out.authorizedLocation = [lat |-> lat, lng |-> lng]
        /\ last.out.distance = MathRound(toPoint)
        /\ last.out.isWithin <=> toPoint <= radius * 100

\* C21 happens: with the point configured on the equator and the radius left
\* unset, a call returned a result that echoes the equator point and 500 m.
C21_Witness ==
  /\ env.AUTHORIZED_LAT = Configured(0) /\ ~env.GEOFENCE_RADIUS.set
  /\ last.fn = "isWithinGeofence" /\ ~last.threw
  /\ last.out.authorizedLocation.lat = 0 /\ last.out.maxDistance = 500

\* C22: the distance from a point to itself is 0, and with the default
\* authorized location (-6.2, 106.816666) a claim of that same point has
\* distance 0 and is within the fence.
C22_ZeroDistance ==
  /\ (/\ last.fn = "calculateDistance"
      /\ last.out.from = [lat |-> last.lat.v, lng |-> last.lng.v])
       => last.out.distance = 0
  /\ (/\ last.fn = "isWithinGeofence"
      /\ ~env.AUTHORIZED_LAT.set /\ ~env.AUTHORIZED_LNG.set
      /\ last.lat = Num(-6200000) /\ last.lng = Num(106816666))
       => /\ ~last.threw
          /\ last.out.distance = 0
          /\ last.out.isWithin

\* C22 happens: calculateDistance was called with the default authorized
\* point twice and returned 0.
C22_Witness ==
  /\ last.fn = "calculateDistance"
  /\ last.lat = Num(DefaultLat) /\ last.lng = Num(DefaultLng)
  /\ last.out.from = [lat |-> DefaultLat, lng |-> DefaultLng]
  /\ last.out.distance = 0

\* C23: for every coordinate pair that validateCoordinates accepts,
\* latitude 0 and longitude 0 included, isWithinGeofence returns a result, so
\* a check-in or check-out with well-formed coordinates is never answered
\* with an internal server error.
C23_ValidatedIsAccepted ==
  [][(AnswersDoctor /\ WellFormed(last'.body))
     => LET cv == validateCoordinates(last'.body.latitude,
                                      last'.body.longitude)
        IN  /\ ~isWithinGeofence(cv.lat, cv.lng).threw
            /\ last'.status # 500]_vars

----------------------------------------------------------------------------
(* Order of the checks and outcomes of a request *)

OutsideMessage == "You are outside the authorized location"

\* The failures of the three synchronous checks
CoordinateMessages == {InvalidFormat, LatitudeOutOfRange, LongitudeOutOfRange}
PhotoMessages == {photoMessage("checkin"), photoMessage("checkout")}

\* C24: the answer to a check-in or check-out of a doctor is decided by the
\* first failing check in the order coordinates, photo, geofence, records:
\* ill-formed coordinates get the coordinate error whatever else is wrong; else
\* a missing photo gets the photo error; else a point outside the fence gets
\* OutsideGeofence whatever rows exist; and only a request that passes these
\* three is answered from the rows of the user.
C24_CheckOrder ==
  [][AnswersDoctor =>
       LET b == last'.body
           cv == validateCoordinates(b.latitude, b.longitude)
       IN  IF ~cv.valid
           THEN last'.status = 400 /\ last'.message = cv.message
           ELSE IF ~b.file
           THEN last'.status = 400 /\ last'.message = photoMessage(last'.op)
           ELSE IF DistanceOf(b) > Authorized.radius * 100
           THEN last'.status = 403 /\ last'.message = OutsideMessage
           ELSE /\ last'.status # 403
                /\ last'.message \notin CoordinateMessages \cup PhotoMessages]_vars

\* The step ends the check-in or check-out request of slot p
Ends(p) ==
  /\ req[p].op \in {"checkin", "checkout"}
  /\ req[p].pc # "idle" /\ req'[p].pc = "idle"

\* C25: a check-in or check-out request ends in exactly one outcome. Every
\* answer other than success (coordinate, photo, geofence, record-state,
\* access and internal errors) leaves the attendance rows as they were, a
\* success adds exactly one row of the requester, and a step of a request
\* that does not end it writes nothing and sends nothing.
C25_FailureLeavesRecords ==
  [][/\ (Responds /\ last'.op \in {"checkin", "checkout"})
          => IF last'.status = 200
             THEN AddsOne(last'.userId, last'.op)
             ELSE attendance' = attendance
     /\ \A p \in Procs :
          /\ Ends(p)
               => /\ last'.op = req[p].op /\ last'.userId = req[p].userId
                  /\ IF last'.status = 200
                     THEN AddsOne(req[p].userId, req[p].op)
                     ELSE attendance' = attendance
          /\ (/\ req[p].op \in {"checkin", "checkout"}
              /\ req'[p] # req[p] /\ ~Ends(p))
               => attendance' = attendance /\ last' = last]_vars

\* C25 happens: a check-in that passed every check was answered with an
\* internal error at its INSERT, because its user had been deleted.
C25_Witness ==
  /\ last.op = "checkin" /\ last.status = 500
  /\ WellFormed(last.body) /\ last.body.file
  /\ ~Falsy(parseFloat(last.body.latitude))
  /\ ~Exists(last.userId)

\* C26: in every reachable state, for every user and calendar date with both
\* a check-in row and a check-out row, the check-in row's timestamp is not
\* later than the check-out row's.
C26_CheckinNotLater ==
  \A u \in UserIds, d \in Dates :
    \A r \in Rows(u, "checkin", d), q \in Rows(u, "checkout", d) :
      r.timestamp <= q.timestamp

----------------------------------------------------------------------------
(* The distance reported with a rejection *)

\* C27 as stated: whenever isWithinGeofence reports isWithin = false, the
\* rounded distance it reports is strictly greater than maxDistance.
C27_AsStated ==
  (last.fn = "isWithinGeofence" /\ ~last.threw /\ ~last.out.isWithin)
    => last.out.distance > last.out.maxDistance

\* C27 amended: whenever isWithinGeofence reports isWithin = false, the
\* rounded distance it reports is at least maxDistance; it equals maxDistance
\* when the point is less than half a metre beyond the radius.
C27_ReportedNotBelowMax ==
  (last.fn = "isWithinGeofence" /\ ~last.threw /\ ~last.out.isWithin)
    => /\ last.out.distance >= last.out.maxDistance
       /\ last.out.distance = last.out.maxDistance
            <=> ComputedDistance < last.out.maxDistance * 100 + 50

\* C27 happens: a point 500.02 m from the authorized point was classified as
\* outside and reported at 500 m with a maximum of 500 m.
C27_Witness ==
  /\ last.fn = "isWithinGeofence" /\ ~last.threw
  /\ ~last.out.isWithin
  /\ ComputedDistance = 50002
  /\ last.out.distance = 500 /\ last.out.maxDistance = 500

----------------------------------------------------------------------------
(* Isolation of the users *)

\* The rows of one user
Own(userId) == {r \in attendance : r.user_id = userId}

\* The rows of one user, of one type, dated today by the lookup
OwnOn(userId, type, today) ==
  {r \in Own(userId) : r.type = type /\ r.timestamp \div TicksPerDay = today}

\* C28: a check-in or check-out runs under the id of a token that was
\* issued, every row it creates carries that id and no row of another user
\* is touched, and what each step of the request answers is decided by the
\* requester's own rows: the rows of other users play no part in it.
C28_PerUserIsolation ==
  [][\A p \in Procs :
       LET u == req[p].userId
       IN  /\ (req[p].pc = "idle" /\ req'[p].op \in {"checkin", "checkout"})
                => [id |-> req'[p].userId, role |-> "doctor"] \in tokens
           /\ req[p].op \in {"checkin", "checkout"} /\ req'[p] # req[p]
                => /\ \A r \in attendance' \ attendance : r.user_id = u
                   /\ attendance \subseteq attendance'
           /\ Steps(p, "ci_select")
                => IF OwnOn(u, "checkin", req[p].today) # {}
                   THEN Rejects(p, AlreadyCheckedIn(p))
                   ELSE req'[p].pc = "ci_insert" /\ attendance' = attendance
           /\ Steps(p, "co_select1")
                => IF OwnOn(u, "checkin", req[p].today) = {}
                   THEN Rejects(p, NotCheckedIn(p))
                   ELSE req'[p].pc = "co_select2" /\ attendance' = attendance
           /\ Steps(p, "co_select2")
                => IF OwnOn(u, "checkout", req[p].today) # {}
                   THEN Rejects(p, AlreadyCheckedOut(p))
                   ELSE req'[p].pc = "co_insert" /\ attendance' = attendance
           /\ (Steps(p, "ci_insert") \/ Steps(p, "co_insert"))
                => IF Exists(u)
                   THEN last'.status = 200 /\ AddsOne(u, req[p].op)
                   ELSE last'.status = 500 /\ attendance' = attendance]_vars

\* C28 happens: doctor d2 has just checked in successfully on a day for
\* which doctor d1 has a check-in row.
C28_Witness ==
  /\ last.op = "checkin" /\ last.status = 200 /\ last.userId = "d2"
  /\ \E r, q \in attendance :
       /\ r.user_id = "d1" /\ r.type = "checkin"
       /\ q.user_id = "d2" /\ q.type = "checkin"
       /\ r.timestamp \div TicksPerDay = q.timestamp \div TicksPerDay
       /\ r.id < q.id

----------------------------------------------------------------------------
(* GET /status against the check-in and check-out handlers *)

\* The last response is the status of this slot's user for this slot's day,
\* and nothing was written since (a write would have answered after it)
StatusShown(p) ==
  /\ last.op = "status" /\ last.status = 200
  /\ last.userId = req[p].userId
  /\ last.data.date = req[p].today

\* C29: the status answer shows a check-in exactly when the user has a
\* check-in row for the day of the request, which is exactly when a check-in
\* request of that user and day is rejected as AlreadyCheckedIn, and shows a
\* check-out exactly when a check-out row exists for that day; a check-out
\* passes its two lookups exactly when the status shows a check-in and no
\* check-out.
C29_StatusAgrees ==
  [][\A p \in Procs :
       /\ Steps(p, "st_select")
            => /\ last'.data.checkin.set
                    <=> SelectAttendance(req[p].userId, "checkin",
                                         req[p].today) # {}
               /\ last'.data.checkout.set
                    <=> SelectAttendance(req[p].userId, "checkout",
                                         req[p].today) # {}
       /\ (Steps(p, "ci_select") /\ StatusShown(p))
            => IF last.data.checkin.set
               THEN Rejects(p, AlreadyCheckedIn(p))
               ELSE req'[p].pc = "ci_insert"
       /\ (Steps(p, "co_select1") /\ StatusShown(p))
            => IF last.data.checkin.set
               THEN req'[p].pc = "co_select2"
               ELSE Rejects(p, NotCheckedIn(p))
       /\ (Steps(p, "co_select2") /\ StatusShown(p))
            => IF last.data.checkout.set
               THEN Rejects(p, AlreadyCheckedOut(p))
               ELSE req'[p].pc = "co_insert"]_vars

\* C29 happens: the status showed a check-in and no check-out, and the
\* check-out the user sent next has passed both lookups.
C29_Witness ==
  /\ last.op = "status" /\ last.status = 200
  /\ last.data.checkin.set /\ ~last.data.checkout.set
  /\ \E p \in Procs :
       /\ req[p].op = "checkout" /\ req[p].pc = "co_insert"
       /\ req[p].userId = last.userId /\ req[p].today = last.data.date

----------------------------------------------------------------------------
(* The administrator's account *)

IsDoctor(id) == \E u \in users : u.id = id /\ u.role = "doctor"

IdTaken(id) == \E u \in users : u.id = id

\* The step is the answer of an admin route, sent from its lookup by a
\* handler that the middleware let through
AnswersAtLookup(ops) ==
  /\ Responds /\ req' = req
  /\ last'.op \in ops
  /\ last'.body.role = "admin"

\* What every step does to the users table: the administrator's row stays as
\* it is, the INSERT of create-doctor adds one doctor under a new id, the
\* DELETE of delete-doctor removes the doctor it looked up, the UPDATE of
\* update-password changes the password of the doctor it looked up, and
\* only requests about a doctor get as far as the DELETE or the UPDATE.
UsersTableSteps ==
  /\ AdminRow \in users'
  /\ \A u \in users \ users' : u.role = "doctor"
  /\ \A v \in users' \ users : v.role = "doctor"
  /\ \A p \in Procs :
       /\ (Steps(p, "cd_insert") /\ users' # users)
            => /\ ~IdTaken(req[p].argId)
               /\ \E v \in users' :
                    /\ users' = users \cup {v}
                    /\ v.id = req[p].argId /\ v.role = "doctor"
       /\ Steps(p, "dd_delete")
            => /\ users' \subseteq users
               /\ \A u \in users \ users' : u.id = req[p].argId
       /\ Steps(p, "up_update")
            => /\ {u.id : u \in users'} = {u.id : u \in users}
               /\ \A u \in users \ users' : u.id = req[p].argId
               /\ \A v \in users' \ users : v.id = req[p].argId
       /\ (req[p].pc = "idle" /\ req'[p].pc \in {"dd_delete", "up_update"})
            => IsDoctor(req'[p].argId)
       /\ (req[p].pc = "idle" /\ req'[p].pc = "cd_insert")
            => ~IdTaken(req'[p].argId)
       /\ (req[p].pc = "idle" /\ req'[p].pc # "idle") => users' = users
  /\ (Responds /\ req' = req) => users' = users

\* C30 as stated: the administrator's row survives every step, and
\* delete-doctor and update-password answer 404 'Doctor not found' for every
\* id that is not a doctor's, and create-doctor answers 409 whenever the
\* trimmed id is taken, all changing nothing.
C30_AsStated ==
  [][/\ UsersTableSteps
     /\ (/\ AnswersAtLookup({"delete-doctor", "update-password"})
         /\ last'.target # "" /\ ~IsDoctor(last'.target))
          => last'.status = 404 /\ last'.message = "Doctor not found"
     /\ (AnswersAtLookup({"create-doctor"}) /\ IdTaken(last'.target))
          => last'.status = 409]_vars

\* C30 amended: the administrator's row survives every step; a
\* delete-doctor or update-password request about an id that is not a
\* doctor's never reaches its DELETE or UPDATE and is answered 404 'Doctor
\* not found', or 400 when update-password's input validation fails first; a
\* create-doctor request whose trimmed id is taken never reaches its INSERT
\* and is answered 409, or 400 when its input validation fails first; a
\* request about a doctor is never answered 404, and one with a free id
\* never 409.
C30_AdminSurvives ==
  [][/\ UsersTableSteps
     /\ AnswersAtLookup({"delete-doctor"})
          => /\ last'.status = 404 /\ last'.message = "Doctor not found"
             /\ ~IsDoctor(last'.target)
     /\ AnswersAtLookup({"update-password"})
          => /\ last'.status \in {400, 404}
             /\ last'.status = 404
                  => last'.message = "Doctor not found"
                       /\ ~IsDoctor(last'.target)
     /\ AnswersAtLookup({"create-doctor"})
          => /\ last'.status \in {400, 409}
             /\ last'.status = 409 => IdTaken(last'.target)]_vars

\* C30 happens: after a doctor's password was changed, update-password was
\* called for the administrator's id and answered 404, and the
\* administrator's row is as it was created.
C30_Witness ==
  /\ last.op = "update-password" /\ last.status = 404
  /\ last.target = "admin"
  /\ AdminRow \in users
  /\ \E u \in users :
       u.role = "doctor" /\ u.password_hash = bcryptHash(NewPassword)

====
